---- MODULE Spec2Model ----
(***************************************************************************)
(* Model of design.py: the Latin-hypercube design generator.               *)
(*                                                                         *)
(* main() loops over itertools.product(systems, [False, True]); for each   *)
(* (system, validation) it constructs a Design (which asks R for a maximin *)
(* LHS and rescales it) and calls write_files, which creates the output    *)
(* directory, writes the design-point table, calls the module-input writer *)
(* once per point and writes the range table.                              *)
(*                                                                         *)
(* Numbers.  Parameter ranges are held in units of 1e-6, so (0.3, 3.0) is  *)
(* <<300000, 3000000>>.  A unit-cube sample entry is the grid fraction     *)
(* g/den with 0 <= g < den, den = npoints * Sub; a scaled array entry is   *)
(* held as the integer  lo*den + (hi - lo)*g , i.e. the value in units of  *)
(* 1e-6/den.  The arithmetic is exact (no floating-point rounding).        *)
(* str(x) of a number is modelled by ToString of its integer.              *)
(***************************************************************************)
EXTENDS Integers, Sequences, FiniteSets, TLC

VARIABLES
    systems,        \* configurations.systems: the list main() iterates over
    n_design_pts,   \* the npoints argument (default configurations.n_design_pts)
    seed_arg,       \* the seed argument of Design(): <<>> is None, <<s>> is s
    it,             \* position of main()'s loop in product(systems, [F, T])
    pc,             \* "main", "built", "points", "ranges", "done", "error"
    err,            \* "", "config" (KeyError of a lookup), "write"
    design,         \* the Design object under construction / being written
    k,              \* write_files: index of the next design point
    kwargs,         \* write_files: the parameter dictionary of the last point
    dirs,           \* file system: directories that exist
    files,          \* file system: path -> sequence of rows (sequences of fields)
    owners,         \* ghost: path -> set of (system, type) pairs that created it
    calls,          \* ghost: write_module_inputs calls of the current write_files
    lhsLog          \* ghost: every generate_lhs call, with its R script and result

vars == <<systems, n_design_pts, seed_arg, it, pc, err, design, k, kwargs, dirs, files,
          owners, calls, lhsLog>>

-----------------------------------------------------------------------------
(* Bounds of the model *)

\* largest point count (npoints) a Design is built with
MaxPoints == 2
\* grid positions inside one stratum of the unit-cube sample
Sub == 2
\* longest systems list
MaxSystems == 2
\* explicit seeds a caller passes are 0..MaxSeed
MaxSeed == 1
\* distinct RNG states of the R process
RngStates == 3

-----------------------------------------------------------------------------
(* Inputs *)

\* systems are (projectile, target, beam energy) triples
SysPbPb == <<"Pb", "Pb", 2760>>
SysPPb == <<"p", "Pb", 2760>>
SysSplit == <<"P", "bPb", 2760>>
SysAuAu == <<"Au", "Au", 200>>

AllSystems == {SysPbPb, SysPPb, SysSplit, SysAuAu}

\* lists of distinct systems, of length 1..MaxSystems
SystemLists ==
    { s \in UNION { [1..n -> AllSystems] : n \in 1..MaxSystems } :
        \A i, j \in DOMAIN s : i # j => s[i] # s[j] }

\* the seed argument: <<>> is None, <<s>> is the integer s
SeedArgs == {<<>>} \cup { <<s>> : s \in 0..MaxSeed }

\* args.inputs_dir
basedir == "inputs"

-----------------------------------------------------------------------------
(* Design.__init__ *)

DefaultSeedMain == 450829120
DefaultSeedValidation == 751783496

\* norm_range lookup, keyed by beam energy (5020 is commented out)
NormRange == [e \in {2760} |-> <<10000000, 18000000>>]

\* cross_section lookup, sqrt(s) [GeV] : sigma_NN [fm^2]
CrossSection == [e \in {200, 2760, 5020} |->
    IF e = 200 THEN 4200000 ELSE IF e = 2760 THEN 6400000 ELSE 7000000]

\* the uncommented keys of the design matrix, in order
Keys == << "norm", "fluct_k", "nucleon_width", "tau_R", "alpha",
    "eta_over_s_at_kink", "zeta_over_s_max", "zeta_over_s_T_peak_in_GeV",
    "zeta_over_s_area_fourth", "zeta_over_s_lambda_asymm" >>

\* self.range for a beam energy in DOMAIN NormRange
Range(beam_energy) == << NormRange[beam_energy],
    <<300000, 3000000>>, <<400000, 1500000>>, <<500000, 2000000>>,
    <<-500000, 0>>, <<10000, 250000>>, <<0, 300000>>, <<100000, 500000>>,
    <<118921, 494923>>, <<-800000, 800000>> >>

\* self.system = system[0]+system[1]+"-"+str(system[2])
SystemString(system) == system[1] \o system[2] \o "-" \o ToString(system[3])

\* self.type
TypeOf(validation) == IF validation THEN "validation" ELSE "main"

PointIdsFromOne(npoints) == [i \in 1..npoints |-> ToString(i)]
\* self.points = [str(i) for i in range(npoints)]
PointIds(npoints) == [i \in 1..npoints |-> ToString(i - 1)]

SeedForFalsy(seedArg, validation) ==
    IF seedArg = <<>> \/ seedArg = <<0>>
    THEN IF validation THEN DefaultSeedValidation ELSE DefaultSeedMain
    ELSE seedArg[1]
\* if seed is None: seed = 751783496 if validation else 450829120
SeedFor(seedArg, validation) ==
    IF seedArg = <<>>
    THEN IF validation THEN DefaultSeedValidation ELSE DefaultSeedMain
    ELSE seedArg[1]

RescaleNoFloor(lo, hi, g, den) == lo * den + hi * g
\* lhsmin + (self.max - lhsmin)*u for one entry u = g/den, lhsmin = self.min
Rescale(lo, hi, g, den) == lo * den + (hi - lo) * g

-----------------------------------------------------------------------------
(* generate_lhs: one fresh R process per call *)

\* the text sent to R's stdin
RScript(npoints, ndim, seed) ==
    "library('lhs') set.seed(" \o ToString(seed) \o ") write.table(maximinLHS("
    \o ToString(npoints) \o ", " \o ToString(ndim)
    \o "), col.names=FALSE, row.names=FALSE)"

RSetSeedSkipped(fresh, seed) == fresh
\* set.seed(seed): the RNG state after it depends on the seed alone, whatever
\* state the fresh process started in
RSetSeed(fresh, seed) == seed % RngStates

\* maximinLHS(npoints, ndim) run from RNG state rng: a Latin hypercube, every
\* column holds one grid point in each of the npoints strata
MaximinLHS(npoints, ndim, rng) ==
    [i \in 1..npoints |-> [j \in 1..ndim |->
        ((i - 1 + rng + j) % npoints) * Sub + ((rng + i * j) % Sub)]]

\* proc = subprocess.run(['R', '--slave'], input=script); lhs = np.array(stdout)
\* fresh is the RNG state the new R process starts in
generate_lhs(npoints, ndim, seed, fresh) ==
    MaximinLHS(npoints, ndim, RSetSeed(fresh, seed))

-----------------------------------------------------------------------------
(* Python dict, insertion ordered: a sequence of <<key, value>> pairs *)

Has(d, key) == \E i \in DOMAIN d : d[i][1] = key

Get(d, key) == d[CHOOSE i \in DOMAIN d : d[i][1] = key][2]

\* d.pop(key) of a key that is present: the remaining entries keep their order
Pop(d, key) == SelectSeq(d, LAMBDA p : p[1] # key)

\* d.update(key=value): a new key goes last, a present key keeps its place
Update(d, key, value) ==
    IF Has(d, key)
    THEN [i \in DOMAIN d |-> IF d[i][1] = key THEN <<key, value>> ELSE d[i]]
    ELSE Append(d, <<key, value>>)

-----------------------------------------------------------------------------
(* Design.write_files *)

\* outdir = basedir / self.type / self.system
OutDir(d) == basedir \o "/" \o d.type \o "/" \o d.system

\* os.path.join(basedir, 'design_points_'+str(self.type)+'_'+str(self.system)+'.dat')
DesignFile(d) ==
    basedir \o "/" \o "design_points_" \o d.type \o "_" \o d.system \o ".dat"

\* os.path.join(basedir, 'design_ranges_'+str(self.type)+'_'+str(self.system)+'.dat')
RangeFile(d) ==
    basedir \o "/" \o "design_ranges_" \o d.type \o "_" \o d.system \o ".dat"

\* "idx" then "," + key for key in self.keys
Header(d) == <<"idx">> \o d.keys

\* dict(zip(self.keys, row), projectiles=..., cross_section={...}[self.beam_energy])
InitialKwargs(d, row) ==
    [i \in 1..Len(d.keys) |-> <<d.keys[i], row[i]>>]
    \o << <<"projectiles", d.projectiles>>,
          <<"cross_section", CrossSection[d.beam_energy]>> >>

\* 2./3.141592*area_fourth**4/zeta_max on numpy floats: a zero divisor gives
\* inf (with a RuntimeWarning), not an exception
Width(area_fourth, zeta_max) ==
    [area_fourth |-> area_fourth, zeta_max |-> zeta_max, finite |-> zeta_max # 0]

\* kwargs.update(zeta_over_s_width_in_GeV=... kwargs.pop('zeta_over_s_area_fourth') ...)
\* the arguments are evaluated (and the key popped) before the update
PointKwargs(d, row) ==
    LET kw0 == InitialKwargs(d, row)
        area == Get(kw0, "zeta_over_s_area_fourth")
        kw1 == Pop(kw0, "zeta_over_s_area_fourth")
    IN  Update(kw1, "zeta_over_s_width_in_GeV",
               Width(area, Get(kw1, "zeta_over_s_max")))

\* str(kwargs[key])
StrValue(key, value) ==
    IF key = "projectiles" THEN value
    ELSE IF key = "zeta_over_s_width_in_GeV"
         THEN IF value.finite
              THEN "2/pi*" \o ToString(value.area_fourth) \o "^4/"
                   \o ToString(value.zeta_max)
              ELSE "inf"
         ELSE ToString(value)

\* str(point) then "," + str(kwargs[key]) for key in kwargs.keys()
PointRow(point, kw) ==
    <<point>> \o [i \in DOMAIN kw |-> StrValue(kw[i][1], kw[i][2])]

\* the keyword arguments of write_module_inputs for one point
ModuleInputs(d, point, kw) ==
    [ outdir |-> OutDir(d),
      design_point_id |-> point,
      projectile |-> d.projectiles,
      target |-> d.projectiles,
      sqrts |-> d.beam_energy,
      inel_nucleon_cross_section |-> Get(kw, "cross_section"),
      trento_normalization |-> Get(kw, "norm"),
      trento_fluctuation_k |-> Get(kw, "fluct_k"),
      trento_nucleon_width |-> Get(kw, "nucleon_width"),
      tau_R |-> Get(kw, "tau_R"),
      alpha |-> Get(kw, "alpha"),
      eta_over_s_at_kink |-> Get(kw, "eta_over_s_at_kink"),
      zeta_over_s_max |-> Get(kw, "zeta_over_s_max"),
      zeta_over_s_width_in_GeV |-> Get(kw, "zeta_over_s_width_in_GeV"),
      zeta_over_s_T_peak_in_GeV |-> Get(kw, "zeta_over_s_T_peak_in_GeV"),
      zeta_over_s_lambda_asymm |-> Get(kw, "zeta_over_s_lambda_asymm") ]

\* "param,min,max" then one row per key
RangeRows(d) ==
    << <<"param", "min", "max">> >>
    \o [i \in 1..Len(d.keys) |->
          <<d.keys[i], ToString(d.range[i][1]), ToString(d.range[i][2])>>]

-----------------------------------------------------------------------------
(* State machine *)

\* the Design attributes before __init__ has run
NoDesign ==
    [ system |-> "", projectiles |-> "", target |-> "", beam_energy |-> 0,
      type |-> "", keys |-> <<>>, range |-> <<>>, ndim |-> 0, npoints |-> 0,
      points |-> <<>>, den |-> 1, array |-> <<>> ]

\* the (system, validation) pair main()'s loop is at: product(systems, [False, True])
CurSystem == systems[(it + 1) \div 2]
CurValidation == (it % 2 = 0)
NPairs == 2 * Len(systems)

\* Design(system, npoints, validation, seed) once the norm_range lookup succeeded
NewDesign(system, npoints, validation, lhs) ==
    LET range == Range(system[3])
        den == npoints * Sub
    IN  [ system |-> SystemString(system),
          projectiles |-> system[1],
          target |-> system[2],
          beam_energy |-> system[3],
          type |-> TypeOf(validation),
          keys |-> Keys,
          range |-> range,
          ndim |-> Len(range),
          npoints |-> npoints,
          points |-> PointIds(npoints),
          den |-> den,
          array |-> [i \in 1..npoints |-> [j \in 1..Len(range) |->
                        Rescale(range[j][1], range[j][2], lhs[i][j], den)]] ]

Init ==
    /\ systems \in SystemLists
    /\ n_design_pts \in 1..MaxPoints
    /\ seed_arg \in SeedArgs
    /\ it = 1
    /\ pc = "main"
    /\ err = ""
    /\ design = NoDesign
    /\ k = 0
    /\ kwargs = <<>>
    /\ dirs = {}
    /\ files = <<>>
    /\ owners = <<>>
    /\ calls = <<>>
    /\ lhsLog = <<>>

\* main(): the next Design(system, validation=validation); Design.__init__
Construct ==
    /\ pc = "main"
    /\ it <= NPairs
    /\ LET system == CurSystem
           validation == CurValidation
           npoints == n_design_pts
       IN  IF system[3] \notin DOMAIN NormRange
           THEN \* KeyError of the norm_range lookup, before anything is sampled
                /\ pc' = "error"
                /\ err' = "config"
                /\ design' = [NoDesign EXCEPT !.system = SystemString(system),
                                !.projectiles = system[1], !.target = system[2],
                                !.beam_energy = system[3],
                                !.type = TypeOf(validation)]
                /\ UNCHANGED lhsLog
           ELSE \E fresh \in 0..(RngStates - 1) :
                LET ndim == Len(Range(system[3]))
                    seed == SeedFor(seed_arg, validation)
                    lhs == generate_lhs(npoints, ndim, seed, fresh)
                IN  /\ design' = NewDesign(system, npoints, validation, lhs)
                    /\ lhsLog' = Append(lhsLog,
                          [ npoints |-> npoints, ndim |-> ndim, seed |-> seed,
                            script |-> RScript(npoints, ndim, seed),
                            result |-> lhs, validation |-> validation ])
                    /\ pc' = "built"
                    /\ err' = err
    /\ UNCHANGED <<systems, n_design_pts, seed_arg, it, k, kwargs, dirs, files,
                   owners, calls>>

\* the owners of path after (system, type) created or truncated it
Owned(path) ==
    (IF path \in DOMAIN owners THEN owners[path] ELSE {})
    \cup {<<CurSystem, design.type>>}

\* write_files up to the loop: outdir.mkdir(parents=True, exist_ok=True),
\* open the design-point file for writing, write its header
WriteOpen ==
    /\ pc = "built"
    /\ LET outdir == OutDir(design)
           dfile == DesignFile(design)
       IN  /\ dirs' = dirs \cup {basedir, basedir \o "/" \o design.type, outdir}
           /\ files' = (dfile :> <<Header(design)>>) @@ files
           /\ owners' = (outdir :> Owned(outdir)) @@ (dfile :> Owned(dfile)) @@ owners
    /\ calls' = <<>>
    /\ k' = 1
    /\ pc' = IF design.npoints >= 1 THEN "points" ELSE "ranges"
    /\ UNCHANGED <<systems, n_design_pts, seed_arg, it, err, design, kwargs, lhsLog>>

\* one iteration of "for point, row in zip(self.points, self.array)"
WritePoint ==
    /\ pc = "points"
    /\ k <= design.npoints
    /\ LET point == design.points[k]
           row == design.array[k]
           dfile == DesignFile(design)
       IN  IF design.beam_energy \notin DOMAIN CrossSection
           THEN \* KeyError of the cross_section lookup
                /\ pc' = "error"
                /\ err' = "config"
                /\ UNCHANGED <<k, kwargs, files, calls>>
           ELSE LET kw == PointKwargs(design, row)
                IN  /\ kwargs' = kw
                    /\ calls' = Append(calls, ModuleInputs(design, point, kw))
                    /\ files' = [files EXCEPT
                                   ![dfile] = Append(@, PointRow(point, kw))]
                    /\ k' = k + 1
                    /\ pc' = IF k < design.npoints THEN "points" ELSE "ranges"
                    /\ err' = err
    /\ UNCHANGED <<systems, n_design_pts, seed_arg, it, design, dirs, owners, lhsLog>>

\* the end of write_files: design_file.close(), then the range file; main()'s
\* loop moves on
WriteRanges ==
    /\ pc = "ranges"
    /\ LET rfile == RangeFile(design)
       IN  /\ files' = (rfile :> RangeRows(design)) @@ files
           /\ owners' = (rfile :> Owned(rfile)) @@ owners
    /\ it' = it + 1
    /\ pc' = "main"
    /\ UNCHANGED <<systems, n_design_pts, seed_arg, err, design, k, kwargs, dirs,
                   calls, lhsLog>>

\* write_module_inputs raises for point k: the exception leaves write_files,
\* nothing is caught, the row of point k is never written
RaiseInModuleInputs ==
    /\ pc = "points"
    /\ k <= design.npoints
    /\ design.beam_energy \in DOMAIN CrossSection
    /\ LET kw == PointKwargs(design, design.array[k])
       IN  /\ kwargs' = kw
           /\ calls' = Append(calls, ModuleInputs(design, design.points[k], kw))
    /\ pc' = "error"
    /\ err' = "write"
    /\ UNCHANGED <<systems, n_design_pts, seed_arg, it, design, k, dirs, files,
                   owners, lhsLog>>

\* a write to the range file fails (OSError) after m of its rows
RaiseInRangeWrite ==
    /\ pc = "ranges"
    /\ \E m \in 0..(design.ndim - 1) :
        LET rfile == RangeFile(design)
        IN  /\ files' = (rfile :> SubSeq(RangeRows(design), 1, 1 + m)) @@ files
            /\ owners' = (rfile :> Owned(rfile)) @@ owners
    /\ pc' = "error"
    /\ err' = "write"
    /\ UNCHANGED <<systems, n_design_pts, seed_arg, it, design, k, kwargs, dirs,
                   calls, lhsLog>>

\* main(): the loop is exhausted, logging.info('wrote all files ...')
MainDone ==
    /\ pc = "main"
    /\ it > NPairs
    /\ pc' = "done"
    /\ UNCHANGED <<systems, n_design_pts, seed_arg, it, err, design, k, kwargs,
                   dirs, files, owners, calls, lhsLog>>

Next ==
    \/ Construct
    \/ WriteOpen
    \/ WritePoint
    \/ WriteRanges
    \/ RaiseInModuleInputs
    \/ RaiseInRangeWrite
    \/ MainDone

Spec == Init /\ [][Next]_vars

-----------------------------------------------------------------------------
(* Properties *)

\* write_files is inside or past its loop over the design points
InWrite == pc \in {"points", "ranges"}

\* position of key in self.keys
KeyIndex(key) == CHOOSE j \in DOMAIN Keys : Keys[j] = key

\* C1: in the design-point table the header is "idx" then the keys, and every
\* data row is the point id then exactly one value per header key, in the
\* header's order: same number of fields, field c the value of header key c.
C1_RowsMatchHeader ==
    InWrite =>
        LET f == files[DesignFile(design)]
        IN  /\ f[1][1] = "idx"
            /\ \A r \in 2..Len(f) :
                /\ Len(f[r]) = Len(f[1])
                /\ f[r][1] = design.points[r - 1]
                /\ \A c \in 2..Len(f[1]) :
                    f[r][c] = ToString(design.array[r - 1][KeyIndex(f[1][c])])

\* C2: when a configuration error (a failed beam-energy lookup) is raised, the
\* sampler has not been invoked and no directory or file has been created.
C2_ConfigErrorBeforeAnything ==
    (pc = "error" /\ err = "config") =>
        /\ lhsLog = <<>>
        /\ dirs = {}
        /\ DOMAIN files = {}

\* C3: after a failed write_files each manifest path either holds no file or
\* holds the complete table (header plus one row per point / per parameter).
C3_NoPartialManifest ==
    (pc = "error" /\ err = "write") =>
        /\ DesignFile(design) \in DOMAIN files =>
              Len(files[DesignFile(design)]) = 1 + design.npoints
        /\ RangeFile(design) \in DOMAIN files =>
              Len(files[RangeFile(design)]) = 1 + design.ndim

\* the unit-cube sample the current Design was built from
LastLhs == lhsLog[Len(lhsLog)].result

\* C4: a Design built from a unit-cube sample with entries in [0,1) has one
\* value per key per point, each within its column's range [min_j, max_j].
C4_ScaledWithinRange ==
    (pc \in {"built", "points", "ranges"}
     /\ \A i \in DOMAIN LastLhs : \A j \in DOMAIN LastLhs[i] :
            0 <= LastLhs[i][j] /\ LastLhs[i][j] < design.den) =>
        /\ Len(design.array) = n_design_pts
        /\ \A i \in DOMAIN design.array :
            /\ Len(design.array[i]) = Len(design.keys)
            /\ \A j \in DOMAIN design.array[i] :
                /\ design.range[j][1] * design.den <= design.array[i][j]
                /\ design.array[i][j] <= design.range[j][2] * design.den

\* a Design with the most points, an entry at its column's minimum and an
\* entry sampled at the top of the grid
C4_Witness ==
    /\ pc = "built"
    /\ design.npoints = MaxPoints
    /\ \E i \in DOMAIN design.array : \E j \in DOMAIN design.array[i] :
        design.array[i][j] = design.range[j][1] * design.den
    /\ \E i \in DOMAIN LastLhs : \E j \in DOMAIN LastLhs[i] :
        /\ LastLhs[i][j] = design.den - 1
        /\ design.array[i][j] > design.range[j][1] * design.den

C6_SeedPassed ==
    \A i \in DOMAIN lhsLog :
        /\ seed_arg # <<>> => lhsLog[i].seed = seed_arg[1]
        /\ seed_arg = <<>> =>
            /\ lhsLog[i].seed = IF lhsLog[i].validation THEN 751783496
                                ELSE 450829120
            /\ \A j \in DOMAIN lhsLog :
                (lhsLog[j].validation # lhsLog[i].validation)
                    => lhsLog[j].seed # lhsLog[i].seed

\* the caller passed seed 0 and both the main and the validation design have
\* asked for their sample
C6_Witness ==
    /\ seed_arg = <<0>>
    /\ \E i, j \in DOMAIN lhsLog :
        lhsLog[i].validation /\ ~lhsLog[j].validation

C8_ModuleInputsPerPoint ==
    InWrite =>
        /\ Len(calls) = k - 1
        /\ \A i \in DOMAIN calls :
            /\ calls[i].design_point_id = design.points[i]
            /\ calls[i].outdir = basedir \o "/" \o design.type \o "/" \o design.system
            /\ calls[i].trento_normalization = design.array[i][KeyIndex("norm")]
            /\ calls[i].trento_fluctuation_k = design.array[i][KeyIndex("fluct_k")]
            /\ calls[i].zeta_over_s_max
                 = design.array[i][KeyIndex("zeta_over_s_max")]
            /\ calls[i].sqrts = design.beam_energy
            /\ calls[i].inel_nucleon_cross_section = CrossSection[design.beam_energy]
            /\ calls[i].projectile = CurSystem[1]
            /\ calls[i].target = CurSystem[2]

\* C9: no output directory or manifest path is created by two distinct
\* (system, type) pairs.
C9_NoSharedOutput ==
    \A path \in DOMAIN owners : Cardinality(owners[path]) <= 1

\* C10: the divisor zeta_over_s_max of the derived width is non-zero for
\* every design point write_files processes.
C10_DivisorNonZero ==
    \A i \in DOMAIN calls : calls[i].zeta_over_s_max # 0

====
